---- MODULE Spec2Model ----
(***************************************************************************)
(* A model of borg.portfolio.sat_world: the SAT_Trainer (build_actions,    *)
(* get_data), SAT_WorldAction and SAT_WorldOutcome, over a run-history     *)
(* store of RunAttemptRow records.                                         *)
(*                                                                         *)
(* Durations are whole seconds.  The history store is a bag (multiset) of  *)
(* attempt rows: two attempts may agree on every column the query reads.   *)
(***************************************************************************)
EXTENDS Bags, FiniteSets, Integers, Sequences, TLC

\* ------------------------------------------------------------------ bounds

\* Most attempt rows the history store holds.
MaxRecords == 2
\* Longest "solvers" list of a request.
MaxSolvers == 2
\* Longest "budgets" list of a request.
MaxBudgets == 2

\* ------------------------------------------------------------ value sets

\* Solver names the run-time environment maps to a solver.
NamedSolvers == {"foo", "bar"}
\* Solver names a request may hold; "nosuch" resolves to nothing.
SolverNames == {"foo", "nosuch"}
\* Task identifiers of the store.
TaskIds == {"t1", "t2"}
\* Allocated budgets and measured costs of attempt rows, in seconds.
Durations == {1, 2}
\* Budget values a request may hold, in seconds.
RequestBudgets == {-1, 1, 2}

Range(s) == {s[i] : i \in DOMAIN s}

\* Sequences over S of length at most n.
SeqsUpTo(S, n) == UNION {[1..k -> S] : k \in 0..n}

\* Sequences over S without repetition.
DistinctSeqs(S) == {s \in SeqsUpTo(S, Cardinality(S)) : Cardinality(Range(s)) = Len(s)}

\* ------------------------------------------------------------- variables

VARIABLES
    task_uuids,   \* SAT_Trainer._task_uuids: the training tasks, in the caller's order
    groupOrder,   \* the order in which the store's engine emits GROUP BY groups
    store,        \* the history store: a bag of attempt rows
    built,        \* history: build_actions has been called on the Trainer
    BY_VALUE,     \* SAT_WorldOutcome.BY_VALUE
    BY_INDEX,     \* SAT_WorldOutcome.BY_INDEX
    ret,          \* the last call: its operation, argument, error and return value
    calls,        \* per concurrent caller: where its get_data call is, its action, its result
    sessions      \* per session the Session factory has handed out: open or not, the rows fetched

vars == <<task_uuids, groupOrder, store, built, BY_VALUE, BY_INDEX, ret, calls, sessions>>

\* ---------------------------------------------------------------- outcomes

\* SAT_WorldOutcome(n, utility); utilities 1.0 and 0.0 are written 1 and 0.
SAT_WorldOutcome(n, utility) == [n |-> n, utility |-> utility]

SOLVED == SAT_WorldOutcome(0, 1)

UNSOLVED == SAT_WorldOutcome(1, 0)

\* BY_VALUE with only a satisfying assignment counted as solved.
InitialByValueSatOnly == ("True" :> SOLVED) @@ ("False" :> UNSOLVED) @@ ("None" :> UNSOLVED)

\* The lookup tables as the module sets them.  None is written "None".
InitialByValue == ("True" :> SOLVED) @@ ("False" :> SOLVED) @@ ("None" :> UNSOLVED)

InitialByIndex == <<SOLVED, UNSOLVED>>

utility(outcome) == outcome.utility

\* from_bool with a third outcome for None.
from_bool_unknown(bool) ==
    IF bool = "None" THEN SAT_WorldOutcome(2, 0) ELSE BY_VALUE[bool]

from_bool(bool) == BY_VALUE[bool]

\* An attempt's answer is <<>> (None) or <<[satisfiable |-> b]>>.
from_result(attempt) ==
    IF attempt.answer = <<>>
    THEN UNSOLVED
    ELSE from_bool(attempt.answer[1].satisfiable)

\* ----------------------------------------------------------------- actions

\* cargo.temporal.TimeDelta(seconds = s): a duration kept in microseconds.
TimeDelta(seconds) == [microseconds |-> seconds * 1000000]

\* TimeDelta.as_s: the duration in seconds.
as_s(td) == td.microseconds \div 1000000

\* LookupSolver(name): a handle that keeps the name; nothing is looked up
\* until the solver is run in an environment.
LookupSolver(name) == [name |-> name]

SAT_WorldAction(solver, budget) == [solver |-> solver, budget |-> budget]

cost(action) == as_s(action.budget)

outcomes(action) == BY_INDEX

\* product with the loops exchanged: for each y in order, each x in order.
RECURSIVE productBudgetMajor(_, _)
productBudgetMajor(xs, ys) ==
    IF ys = <<>>
    THEN <<>>
    ELSE [i \in DOMAIN xs |-> <<xs[i], Head(ys)>>] \o productBudgetMajor(xs, Tail(ys))

\* itertools.product(xs, ys): for each x in order, each y in order.
RECURSIVE product(_, _)
product(xs, ys) ==
    IF xs = <<>>
    THEN <<>>
    ELSE [j \in DOMAIN ys |-> <<Head(xs), ys[j]>>] \o product(Tail(xs), ys)

build_actions(request) ==
    LET solvers == [i \in DOMAIN request.solvers |-> LookupSolver(request.solvers[i])]
        budgets == [j \in DOMAIN request.budgets |-> TimeDelta(request.budgets[j])]
        pairs   == product(solvers, budgets)
    IN  [k \in DOMAIN pairs |-> SAT_WorldAction(pairs[k][1], pairs[k][2])]

\* ---------------------------------------------------------------- get_data

\* The columns of a RunAttemptRow the query reads.  answer: answer_uuid is not
\* NULL.  recyclable: the row's trials contain the recyclable trial.
\* Rows of solver "foo" take every value; rows of solver "bar" are the ones
\* every filter but the solver's lets through.
AttemptRows ==
    [solver : {"foo"}, task_uuid : TaskIds, budget : Durations,
     cost : Durations, answer : BOOLEAN, recyclable : BOOLEAN]
    \cup
    [solver : {"bar"}, task_uuid : TaskIds, budget : {2},
     cost : {1}, answer : {TRUE}, recyclable : {TRUE}]

\* The rows of a set, each counted as often as the session holds it.
RECURSIVE CountRows(_, _)
CountRows(rows, session) ==
    IF rows = {}
    THEN 0
    ELSE LET r == CHOOSE x \in rows : TRUE
         IN  CopiesIn(r, session) + CountRows(rows \ {r}, session)

\* WhereClause without the budget condition.
WhereClauseAnyBudget(row, action) ==
    /\ row.solver = action.solver.name
    /\ row.task_uuid \in Range(task_uuids)
    /\ row.recyclable

\* WhereClause with the budget condition strict.
WhereClauseStrictBudget(row, action) ==
    /\ row.solver = action.solver.name
    /\ row.budget > cost(action)
    /\ row.task_uuid \in Range(task_uuids)
    /\ row.recyclable

\* WhereClause without the training-task condition.
WhereClauseAnyTask(row, action) ==
    /\ row.solver = action.solver.name
    /\ row.budget >= cost(action)
    /\ row.recyclable

\* WhereClause without the recyclable-trial condition.
WhereClauseAnyTrial(row, action) ==
    /\ row.solver = action.solver.name
    /\ row.budget >= cost(action)
    /\ row.task_uuid \in Range(task_uuids)

\* The and_(...) of the select.
WhereClause(row, action) ==
    /\ row.solver = action.solver.name
    /\ row.budget >= cost(action)
    /\ row.task_uuid \in Range(task_uuids)
    /\ row.recyclable

Selected(session, action, task) ==
    {r \in BagToSet(session) : WhereClause(r, action) /\ r.task_uuid = task}

\* CountCase with the cost bound open.
CountCaseOpenBound(session, action, task) ==
    CountRows({r \in Selected(session, action, task) :
                  r.cost < cost(action) /\ r.answer}, session)

\* count(case([(RAR.cost <= action.cost, RAR.answer_uuid)])): the rows of the
\* group whose case yields a non-NULL answer_uuid.
CountCase(session, action, task) ==
    CountRows({r \in Selected(session, action, task) :
                  r.cost <= cost(action) /\ r.answer}, session)

\* count(): the rows of the group.
CountAll(session, action, task) ==
    CountRows(Selected(session, action, task), session)

\* group_by = RAR.task_uuid: one group per task with at least one selected
\* row, in the engine's order.
GroupKeys(session, action) ==
    LET nonEmpty(t) == CountAll(session, action, t) > 0
    IN  SelectSeq(groupOrder, nonEmpty)

\* session.execute(select(...)): one (s, a) row per group.
execute(session, action) ==
    LET keys == GroupKeys(session, action)
    IN  [i \in DOMAIN keys |->
            <<CountCase(session, action, keys[i]), CountAll(session, action, keys[i])>>]

\* The list get_data builds from the rows of a session.
OutcomeMaps(session, action) ==
    LET rows == execute(session, action)
    IN  [i \in DOMAIN rows |->
            (SOLVED :> rows[i][1]) @@ (UNSOLVED :> (rows[i][2] - rows[i][1]))]

\* get_data whose list outlives the call and is appended to by the next one.
get_data_appending(action) ==
    IF ret.op = "get_data"
    THEN ret.value \o OutcomeMaps(store, action)
    ELSE OutcomeMaps(store, action)

get_data(action) == OutcomeMaps(store, action)

\* The list comprehension of get_data over rows already fetched.
MapsOfRows(rows) ==
    [i \in DOMAIN rows |->
        (SOLVED :> rows[i][1]) @@ (UNSOLVED :> (rows[i][2] - rows[i][1]))]

\* The threads that call get_data.
Callers == {"c1", "c2"}

\* One session for all calls: the first caller's.
SessionOfTrainer(caller) == "c1"

\* self._Session(): every call opens a session of its own.
SessionOf(caller) == caller

\* get_data_error of a Trainer that refuses to answer before build_actions.
get_data_error_unbuilt(action) == IF built THEN "none" ELSE "NotBuiltError"

\* The error a get_data call ends with.
get_data_error(action) == "none"

\* build_actions_error of a Trainer that resolves names and checks budgets.
build_actions_error_checked(request) ==
    IF \/ \E i \in DOMAIN request.solvers : request.solvers[i] \notin NamedSolvers
       \/ \E j \in DOMAIN request.budgets : request.budgets[j] < 0
    THEN "ConfigurationError"
    ELSE "none"

\* The error a build_actions call ends with.
build_actions_error(request) == "none"

\* ------------------------------------------------------------ the machine

NoCall == [op |-> "none", arg |-> <<>>, error |-> "none", value |-> <<>>, again |-> FALSE]

Requests ==
    [solvers : SeqsUpTo(SolverNames, MaxSolvers), budgets : SeqsUpTo(RequestBudgets, MaxBudgets)]

\* The request the training actions are built from.
TrainingRequest == [solvers |-> <<"foo", "bar">>, budgets |-> <<1, 2>>]

\* Any action a caller can construct.
AnyAction ==
    {SAT_WorldAction(LookupSolver(n), TimeDelta(b)) : n \in SolverNames, b \in RequestBudgets}

\* A history of five attempts.
SampleStore ==
    SetToBag({
        [solver |-> "foo", task_uuid |-> "t1", budget |-> 2, cost |-> 1, answer |-> TRUE,  recyclable |-> TRUE],
        [solver |-> "foo", task_uuid |-> "t1", budget |-> 2, cost |-> 2, answer |-> TRUE,  recyclable |-> TRUE],
        [solver |-> "foo", task_uuid |-> "t2", budget |-> 1, cost |-> 1, answer |-> FALSE, recyclable |-> TRUE],
        [solver |-> "foo", task_uuid |-> "t2", budget |-> 2, cost |-> 1, answer |-> TRUE,  recyclable |-> FALSE],
        [solver |-> "bar", task_uuid |-> "t2", budget |-> 2, cost |-> 1, answer |-> TRUE,  recyclable |-> TRUE]})

InitTables ==
    /\ BY_VALUE = InitialByValue
    /\ BY_INDEX = InitialByIndex

NoCallOf == [pc |-> "idle", action |-> <<>>, result |-> <<>>]

ClosedSession == [open |-> FALSE, rows |-> <<>>]

\* No get_data call is in flight and no session is open.
InitCalls ==
    /\ calls = [p \in Callers |-> NoCallOf]
    /\ sessions = [p \in Callers |-> ClosedSession]

\* SAT_Trainer(task_uuids, Session) over an empty store, its actions built.
Init ==
    /\ task_uuids \in DistinctSeqs(TaskIds)
    /\ groupOrder \in {s \in DistinctSeqs(TaskIds) : Len(s) = Cardinality(TaskIds)}
    /\ store = EmptyBag
    /\ built = TRUE
    /\ InitTables
    /\ InitCalls
    /\ ret = NoCall

\* SAT_Trainer(task_uuids, Session) over a given store, nothing built yet.
InitTrainer ==
    /\ task_uuids \in DistinctSeqs(TaskIds)
    /\ groupOrder \in {s \in DistinctSeqs(TaskIds) : Len(s) = Cardinality(TaskIds)}
    /\ store \in {EmptyBag, SampleStore}
    /\ built = FALSE
    /\ InitTables
    /\ InitCalls
    /\ ret = NoCall

\* The world records an attempt.
AddRecord(r) ==
    /\ BagCardinality(store) < MaxRecords
    /\ store' = store (+) SetToBag({r})
    /\ ret' = NoCall
    /\ UNCHANGED <<task_uuids, groupOrder, built, BY_VALUE, BY_INDEX, calls, sessions>>

\* The world drops an attempt.
RemoveRecord(r) ==
    /\ BagIn(r, store)
    /\ store' = store (-) SetToBag({r})
    /\ ret' = NoCall
    /\ UNCHANGED <<task_uuids, groupOrder, built, BY_VALUE, BY_INDEX, calls, sessions>>

BuildActions(request) ==
    /\ ret' = [op |-> "build_actions", arg |-> request,
               error |-> build_actions_error(request),
               value |-> IF build_actions_error(request) = "none"
                         THEN build_actions(request) ELSE <<>>,
               again |-> FALSE]
    /\ built' = TRUE
    /\ UNCHANGED <<task_uuids, groupOrder, store, BY_VALUE, BY_INDEX, calls, sessions>>

GetData(action) ==
    /\ ret' = [op |-> "get_data", arg |-> action,
               error |-> get_data_error(action),
               value |-> IF get_data_error(action) = "none"
                         THEN get_data(action) ELSE <<>>,
               again |-> (ret.op = "get_data" /\ ret.arg = action)]
    /\ UNCHANGED <<task_uuids, groupOrder, store, built, BY_VALUE, BY_INDEX, calls, sessions>>

FromBool(b) ==
    /\ ret' = [op |-> "from_bool", arg |-> b, error |-> "none",
               value |-> <<from_bool(b)>>, again |-> FALSE]
    /\ UNCHANGED <<task_uuids, groupOrder, store, built, BY_VALUE, BY_INDEX, calls, sessions>>

Attempts == {[answer |-> <<>>]} \cup {[answer |-> <<[satisfiable |-> b]>>] : b \in DOMAIN InitialByValue}

FromResult(attempt) ==
    /\ ret' = [op |-> "from_result", arg |-> attempt, error |-> "none",
               value |-> <<from_result(attempt)>>, again |-> FALSE]
    /\ UNCHANGED <<task_uuids, groupOrder, store, built, BY_VALUE, BY_INDEX, calls, sessions>>

\* The history store changes while the built actions are queried.
Next ==
    \/ \E r \in AttemptRows : AddRecord(r)
    \/ \E r \in AttemptRows : RemoveRecord(r)
    \/ \E a \in Range(build_actions(TrainingRequest)) : GetData(a)

Spec == Init /\ [][Next]_vars

\* The calls of a Trainer's life, over a store that does not change.
NextTrainer ==
    \/ \E request \in Requests : BuildActions(request)
    \/ \E a \in AnyAction : GetData(a)
    \/ \E b \in DOMAIN BY_VALUE : FromBool(b)
    \/ \E attempt \in Attempts : FromResult(attempt)

SpecTrainer == InitTrainer /\ [][NextTrainer]_vars

\* A caller enters get_data(action): "with self._Session() as session".
Enter(p, action) ==
    /\ calls[p].pc \in {"idle", "returned"}
    /\ calls' = [calls EXCEPT ![p] = [pc |-> "open", action |-> action, result |-> <<>>]]
    /\ sessions' = [sessions EXCEPT ![SessionOf(p)] = [open |-> TRUE, rows |-> <<>>]]
    /\ UNCHANGED <<task_uuids, groupOrder, store, built, BY_VALUE, BY_INDEX, ret>>

\* The caller's session executes the select.
Query(p) ==
    /\ calls[p].pc = "open"
    /\ sessions' = [sessions EXCEPT ![SessionOf(p)].rows = execute(store, calls[p].action)]
    /\ calls' = [calls EXCEPT ![p].pc = "queried"]
    /\ UNCHANGED <<task_uuids, groupOrder, store, built, BY_VALUE, BY_INDEX, ret>>

\* The caller builds the list from its session's rows and leaves the with block.
Return(p) ==
    /\ calls[p].pc = "queried"
    /\ calls' = [calls EXCEPT ![p].pc = "returned",
                              ![p].result = MapsOfRows(sessions[SessionOf(p)].rows)]
    /\ sessions' = [sessions EXCEPT ![SessionOf(p)] = ClosedSession]
    /\ UNCHANGED <<task_uuids, groupOrder, store, built, BY_VALUE, BY_INDEX, ret>>

\* Callers run get_data for built actions, interleaved, over a store that
\* does not change.
NextConcurrent ==
    \/ \E p \in Callers : \E a \in Range(build_actions(TrainingRequest)) : Enter(p, a)
    \/ \E p \in Callers : Query(p)
    \/ \E p \in Callers : Return(p)

InitConcurrent ==
    /\ task_uuids \in DistinctSeqs(TaskIds)
    /\ groupOrder \in {s \in DistinctSeqs(TaskIds) : Len(s) = Cardinality(TaskIds)}
    /\ store \in {EmptyBag, SampleStore}
    /\ built = TRUE
    /\ InitTables
    /\ InitCalls
    /\ ret = NoCall

SpecConcurrent == InitConcurrent /\ [][NextConcurrent]_vars

\* The answers a fixed solver may hold: Decision(True, [1, 2, 3, 4, 0]) and a
\* proof of unsatisfiability.
FixedAnswers ==
    {[satisfiable |-> "True", certificate |-> <<1, 2, 3, 4, 0>>],
     [satisfiable |-> "False", certificate |-> <<>>]}

\* Environment(named_solvers): the names it maps, each to a FixedSolver of the
\* same answer.
Environments == [named : SUBSET SolverNames, answer : FixedAnswers]

\* Budgets a portfolio is run with, in seconds.
SolveBudgets == {0, 2}

\* What the learning tool keeps: the built actions and, per action, the
\* training data of get_data.
learn(request) ==
    LET actions == build_actions(request)
    IN  [actions |-> actions, data |-> [k \in DOMAIN actions |-> get_data(actions[k])]]

\* The error the learning tool ends with: that of build_actions, else that of
\* the first get_data call that fails.
learn_error(request) ==
    IF build_actions_error(request) # "none"
    THEN build_actions_error(request)
    ELSE LET actions == build_actions(request)
             failed  == {k \in DOMAIN actions : get_data_error(actions[k]) # "none"}
         IN  IF failed = {}
             THEN "none"
             ELSE get_data_error(actions[CHOOSE k \in failed : \A j \in failed : k <= j])

\* borg.tools.portfolio.learn: train a portfolio from a request and store it.
Learn(request) ==
    /\ ret.op = "none"
    /\ ret' = [op |-> "learn", arg |-> request,
               error |-> learn_error(request),
               value |-> IF learn_error(request) = "none" THEN <<learn(request)>> ELSE <<>>,
               again |-> FALSE]
    /\ built' = TRUE
    /\ UNCHANGED <<task_uuids, groupOrder, store, BY_VALUE, BY_INDEX, calls, sessions>>

\* The actions of a portfolio whose cost the budget covers.
Affordable(portfolio, budget) ==
    {k \in DOMAIN portfolio.actions : cost(portfolio.actions[k]) <= budget}

\* solver.solve(task, budget, random, environment) when the planner takes
\* action k: the environment looks the action's solver up by name and runs
\* it; a fixed solver answers at once.
Solve(k, environment, budget) ==
    /\ ret.op = "learn"
    /\ ret.error = "none"
    /\ k \in Affordable(ret.value[1], budget)
    /\ LET name == ret.value[1].actions[k].solver.name
           found == name \in environment.named
       IN  ret' = [op |-> "solve",
                   arg |-> [portfolio |-> ret.value[1], environment |-> environment,
                            budget |-> budget, taken |-> <<k>>],
                   error |-> IF found THEN "none" ELSE "KeyError",
                   value |-> IF found THEN <<[answer |-> <<environment.answer>>]>> ELSE <<>>,
                   again |-> FALSE]
    /\ UNCHANGED <<task_uuids, groupOrder, store, built, BY_VALUE, BY_INDEX, calls, sessions>>

\* solver.solve when the budget covers no action: an attempt without answer.
SolveNothing(environment, budget) ==
    /\ ret.op = "learn"
    /\ ret.error = "none"
    /\ Affordable(ret.value[1], budget) = {}
    /\ ret' = [op |-> "solve",
               arg |-> [portfolio |-> ret.value[1], environment |-> environment,
                        budget |-> budget, taken |-> <<>>],
               error |-> "none",
               value |-> <<[answer |-> <<>>]>>,
               again |-> FALSE]
    /\ UNCHANGED <<task_uuids, groupOrder, store, built, BY_VALUE, BY_INDEX, calls, sessions>>

\* A portfolio is learnt once, then run.
NextLearn ==
    \/ \E request \in Requests : Learn(request)
    \/ \E environment \in Environments : \E budget \in SolveBudgets :
          \E k \in 1..(MaxSolvers * MaxBudgets) : Solve(k, environment, budget)
    \/ \E environment \in Environments : \E budget \in SolveBudgets :
          SolveNothing(environment, budget)

SpecLearn == InitTrainer /\ [][NextLearn]_vars

\* ------------------------------------------------------- what is checked

\* The number of attempts the store holds among the rows of a set.
Held(rows) == BagCardinality([r \in rows |-> store[r]])

\* Every historical attempt of the action's solver on a task.
AttemptsOn(action, task) ==
    {r \in BagToSet(store) : r.solver = action.solver.name /\ r.task_uuid = task}

\* Those that are recyclable and were allocated at least the action's cost.
EligibleOn(action, task) ==
    {r \in AttemptsOn(action, task) : r.recyclable /\ r.budget >= cost(action)}

\* The <<SOLVED, UNSOLVED>> counts a result of get_data holds for a task: those
\* of the task's group, <<0, 0>> when the task has no group.
TaskCounts(session, action, task) ==
    LET keys == GroupKeys(session, action)
        maps == OutcomeMaps(session, action)
        at   == {i \in DOMAIN keys : keys[i] = task}
    IN  IF at = {}
        THEN <<0, 0>>
        ELSE LET i == CHOOSE k \in at : TRUE
             IN  <<maps[i][SOLVED], maps[i][UNSOLVED]>>

\* The counts of the last get_data call, for a task.
Returned(task) ==
    LET keys == GroupKeys(store, ret.arg)
        at   == {i \in DOMAIN keys : keys[i] = task}
    IN  IF at = {} \/ Len(ret.value) # Len(keys)
        THEN <<0, 0>>
        ELSE LET i == CHOOSE k \in at : TRUE
             IN  <<ret.value[i][SOLVED], ret.value[i][UNSOLVED]>>

\* C1: after get_data(action), for every training task the SOLVED and UNSOLVED
\* counts returned for the task sum to the number of recyclable attempts of the
\* action's solver on the task allocated at least action.cost; the sum differs
\* from the unfiltered attempt count whenever some attempt is filtered out, and
\* neither count is negative.  Every map returned is that of a training task.
C1_CountsSumToEligible ==
    ret.op = "get_data" =>
        /\ Len(ret.value) = Len(GroupKeys(store, ret.arg))
        /\ Range(GroupKeys(store, ret.arg)) \subseteq Range(task_uuids)
        /\ \A t \in Range(task_uuids) :
            LET c == Returned(t)
            IN  /\ c[1] + c[2] = Held(EligibleOn(ret.arg, t))
                /\ c[1] >= 0
                /\ c[2] >= 0
                /\ (EligibleOn(ret.arg, t) # AttemptsOn(ret.arg, t)
                        => c[1] + c[2] # Held(AttemptsOn(ret.arg, t)))

\* C1's case: one of two attempts on a training task is filtered out, and the
\* counts returned for the task sum to 1.
C1_Witness ==
    /\ ret.op = "get_data"
    /\ \E t \in Range(task_uuids) :
        /\ Held(AttemptsOn(ret.arg, t)) = 2
        /\ Held(EligibleOn(ret.arg, t)) = 1
        /\ Returned(t)[1] + Returned(t)[2] = 1

\* C2 as claimed: an eligible attempt is SOLVED exactly when its measured cost
\* is at most action.cost, whatever else the row holds.
C2_SolvedIffWithinCost ==
    ret.op = "get_data" =>
        \A t \in Range(task_uuids) :
            Returned(t)[1] =
                Held({r \in EligibleOn(ret.arg, t) : r.cost <= cost(ret.arg)})

\* C2, amended: an eligible attempt is SOLVED exactly when its measured cost is
\* at most action.cost (equality included) and the row carries an answer, and
\* UNSOLVED otherwise.
C2_SolvedIffWithinCostAndAnswered ==
    ret.op = "get_data" =>
        \A t \in Range(task_uuids) :
            /\ Returned(t)[1] =
                Held({r \in EligibleOn(ret.arg, t) : r.cost <= cost(ret.arg) /\ r.answer})
            /\ Returned(t)[2] =
                Held({r \in EligibleOn(ret.arg, t) : r.cost > cost(ret.arg) \/ ~r.answer})

\* C2's case: an answered attempt whose cost equals action.cost is SOLVED and an
\* unanswered attempt within the cost is UNSOLVED.
C2_Witness ==
    /\ ret.op = "get_data"
    /\ \E t \in Range(task_uuids) :
        /\ Returned(t) = <<1, 1>>
        /\ \E r \in EligibleOn(ret.arg, t) : r.cost = cost(ret.arg) /\ r.answer
        /\ \E r \in EligibleOn(ret.arg, t) : r.cost <= cost(ret.arg) /\ ~r.answer

\* C3 as claimed: get_data returns one map per training task, the i-th map
\* holding the counts of the i-th task of task_uuids, <<0, 0>> included.
C3_OneMapPerTaskInOrder ==
    ret.op = "get_data" =>
        /\ Len(ret.value) = Len(task_uuids)
        /\ \A i \in DOMAIN task_uuids :
            /\ i \in DOMAIN ret.value
            /\ ret.value[i][SOLVED] =
                Held({r \in EligibleOn(ret.arg, task_uuids[i]) :
                         r.cost <= cost(ret.arg) /\ r.answer})
            /\ ret.value[i][SOLVED] + ret.value[i][UNSOLVED] =
                Held(EligibleOn(ret.arg, task_uuids[i]))

\* The store without one copy of a row.
Without(r) == store (-) SetToBag({r})

\* C4: after get_data(action), an attempt allocated less than action.cost is in
\* neither count (the result is the same without it), and a recyclable attempt
\* of the action's solver on a training task allocated exactly action.cost is
\* in exactly one of the two counts of its task.
C4_BudgetBoundary ==
    ret.op = "get_data" =>
        \A r \in BagToSet(store) :
            /\ r.budget < cost(ret.arg)
                => OutcomeMaps(Without(r), ret.arg) = ret.value
            /\ (/\ r.budget = cost(ret.arg)
                /\ r.recyclable
                /\ r.solver = ret.arg.solver.name
                /\ r.task_uuid \in Range(task_uuids))
                => LET now    == Returned(r.task_uuid)
                       before == TaskCounts(Without(r), ret.arg, r.task_uuid)
                   IN  \/ now = <<before[1] + 1, before[2]>>
                       \/ now = <<before[1], before[2] + 1>>

\* C4's case: the store holds an attempt allocated exactly action.cost, which
\* is counted, and one allocated less.
C4_Witness ==
    /\ ret.op = "get_data"
    /\ \E r \in BagToSet(store) :
        /\ r.budget = cost(ret.arg)
        /\ r.recyclable
        /\ r.solver = ret.arg.solver.name
        /\ r.task_uuid \in Range(task_uuids)
        /\ Returned(r.task_uuid)[1] + Returned(r.task_uuid)[2] = 1
    /\ \E r \in BagToSet(store) :
        /\ r.budget < cost(ret.arg)
        /\ r.recyclable
        /\ r.solver = ret.arg.solver.name
        /\ r.task_uuid \in Range(task_uuids)

\* C5: the result of get_data(action) is the same with any non-recyclable
\* attempt of the store removed, whatever its cost and budget.  (Adding such
\* an attempt to a store is removing it from the store that results.)
C5_NonRecyclableIgnored ==
    ret.op = "get_data" =>
        \A r \in BagToSet(store) :
            ~r.recyclable => OutcomeMaps(Without(r), ret.arg) = ret.value

\* C5's case: the store holds a non-recyclable attempt that passes every other
\* filter of the action, beside a recyclable one that is counted.
C5_Witness ==
    /\ ret.op = "get_data"
    /\ Len(ret.value) = 1
    /\ \E r \in BagToSet(store) :
        /\ ~r.recyclable
        /\ r.solver = ret.arg.solver.name
        /\ r.budget >= cost(ret.arg)
        /\ r.cost <= cost(ret.arg)
        /\ r.answer
        /\ r.task_uuid \in Range(task_uuids)
        /\ Returned(r.task_uuid) = <<1, 0>>

C6_ProductInRequestOrder ==
    ret.op = "build_actions" =>
        LET ns == Len(ret.arg.solvers)
            nb == Len(ret.arg.budgets)
        IN  /\ Len(ret.value) = ns * nb
            /\ \A i \in 0..(ns - 1) : \A j \in 0..(nb - 1) :
                LET action == ret.value[i * nb + j + 1]
                IN  /\ action.solver.name = ret.arg.solvers[i + 1]
                    /\ cost(action) = ret.arg.budgets[j + 1]
                    /\ action.budget.microseconds = 1000000 * ret.arg.budgets[j + 1]

\* C6's case: a request of two different solvers and two different budgets
\* was built into four actions.
C6_Witness ==
    /\ ret.op = "build_actions"
    /\ Len(ret.value) = 4
    /\ ret.arg.solvers[1] # ret.arg.solvers[2]
    /\ ret.arg.budgets[1] # ret.arg.budgets[2]

\* C7 as claimed: a get_data call made before any build_actions call fails
\* with NotBuiltError and returns no statistics.
C7_GetDataBeforeBuildFails ==
    (ret.op = "get_data" /\ ~built) =>
        (ret.error = "NotBuiltError" /\ ret.value = <<>>)

\* C7, amended: the Trainer keeps no built state; a get_data call made before
\* any build_actions call ends without error and returns the statistics of
\* the store for the action, as a call made after build_actions does.
C7_GetDataNeedsNoBuild ==
    ret.op = "get_data" =>
        (ret.error = "none" /\ ret.value = OutcomeMaps(store, ret.arg))

\* C7's case: get_data returned statistics though build_actions was never called.
C7_Witness ==
    /\ ret.op = "get_data"
    /\ ~built
    /\ Len(ret.value) = 2

\* A request that names a solver the environment cannot resolve, or holds a
\* negative budget.
Unresolvable(request) ==
    \/ \E i \in DOMAIN request.solvers : request.solvers[i] \notin NamedSolvers
    \/ \E j \in DOMAIN request.budgets : request.budgets[j] < 0

\* C8 as claimed: build_actions on such a request fails with
\* ConfigurationError and returns no action list.
C8_BadRequestFails ==
    (ret.op = "build_actions" /\ Unresolvable(ret.arg)) =>
        (ret.error = "ConfigurationError" /\ ret.value = <<>>)

\* C8, amended: build_actions checks nothing; on such a request it ends
\* without error and returns the whole product, the unresolvable names and the
\* negative budgets in it.
C8_BadRequestStillBuilt ==
    (ret.op = "build_actions" /\ Unresolvable(ret.arg)) =>
        /\ ret.error = "none"
        /\ Len(ret.value) = Len(ret.arg.solvers) * Len(ret.arg.budgets)
        /\ {ret.value[k].solver.name : k \in DOMAIN ret.value}
              = (IF ret.arg.budgets = <<>> THEN {} ELSE Range(ret.arg.solvers))
        /\ {cost(ret.value[k]) : k \in DOMAIN ret.value}
              = (IF ret.arg.solvers = <<>> THEN {} ELSE Range(ret.arg.budgets))

\* C8's case: a built action list holds an unresolvable solver and a negative
\* budget.
C8_Witness ==
    /\ ret.op = "build_actions"
    /\ ret.error = "none"
    /\ \E k \in DOMAIN ret.value : ret.value[k].solver.name \notin NamedSolvers
    /\ \E k \in DOMAIN ret.value : cost(ret.value[k]) < 0

\* The two outcomes, by their content.
TwoOutcomes == {[n |-> 0, utility |-> 1], [n |-> 1, utility |-> 0]}

\* C10: in every state the outcomes of every action are the two outcomes,
\* the first of utility 1.0 and the second of utility 0.0; every key of every
\* map get_data returned and every value from_bool or from_result returned is
\* one of the two; the lookup tables hold no other outcome.
C10_TwoOutcomes ==
    /\ \A a \in AnyAction :
        /\ Len(outcomes(a)) = 2
        /\ Range(outcomes(a)) = TwoOutcomes
        /\ utility(outcomes(a)[1]) = 1
        /\ utility(outcomes(a)[2]) = 0
    /\ utility(SOLVED) = 1
    /\ utility(UNSOLVED) = 0
    /\ utility(SOLVED) > utility(UNSOLVED)
    /\ Range(BY_VALUE) \subseteq TwoOutcomes
    /\ ret.op = "get_data" =>
        \A i \in DOMAIN ret.value : DOMAIN ret.value[i] = TwoOutcomes
    /\ ret.op \in {"from_bool", "from_result"} => ret.value[1] \in TwoOutcomes

\* C10's case: from_result returned the outcome of utility 0.0 for an attempt
\* whose answer decides nothing.
C10_Witness ==
    /\ ret.op = "from_result"
    /\ ret.arg.answer # <<>>
    /\ utility(ret.value[1]) = 0

\* C11: under every interleaving of get_data calls over an unchanging store,
\* a call that has returned holds the result the same call returns when made
\* alone, whatever the other callers have done and are doing; a call in flight
\* holds its own rows, and the store is as it was.
C11_ConcurrentCallsIndependent ==
    \A p \in Callers :
        /\ calls[p].pc = "returned"
            => calls[p].result = OutcomeMaps(store, calls[p].action)
        /\ calls[p].pc = "queried"
            => sessions[SessionOf(p)].rows = execute(store, calls[p].action)
        /\ calls[p].pc \in {"open", "queried"} => sessions[SessionOf(p)].open

\* C11's case: a call has returned its statistics while a call for another
\* action, with other statistics, is in flight with its rows fetched.
C11_Witness ==
    /\ calls["c1"].pc = "returned"
    /\ calls["c2"].pc = "queried"
    /\ calls["c1"].action # calls["c2"].action
    /\ Len(calls["c1"].result) = 2
    /\ calls["c1"].result # MapsOfRows(sessions[SessionOf("c2")].rows)

C13_FromResult ==
    ret.op = "from_result" =>
        LET undecided == IF ret.arg.answer = <<>>
                         THEN TRUE
                         ELSE ret.arg.answer[1].satisfiable = "None"
            decided   == IF ret.arg.answer = <<>>
                         THEN FALSE
                         ELSE ret.arg.answer[1].satisfiable \in {"True", "False"}
        IN  /\ undecided <=> ret.value = <<[n |-> 1, utility |-> 0]>>
            /\ decided <=> ret.value = <<[n |-> 0, utility |-> 1]>>

\* C13's case: from_result returned the outcome of utility 1.0 for a proof of
\* unsatisfiability.
C13_Witness ==
    /\ ret.op = "from_result"
    /\ ret.arg.answer # <<>>
    /\ ret.arg.answer[1].satisfiable = "False"
    /\ utility(ret.value[1]) = 1

====
